---- MODULE Spec2Model ----
(***************************************************************************)
(* Model of scar/providers/aws/lambdalayers.py: the Layer registry wrapper *)
(* and the LambdaLayers supervisor-layer reconciler.                       *)
(*                                                                         *)
(* Strings that the code inspects character by character (archive entry    *)
(* names) are sequences of tokens whose concatenation is the string, e.g.  *)
(* "sup-1/extras.txt" is <<"sup-1", "/", "extra", "s.txt">>.  Version      *)
(* strings such as "1.4.0" are sequences of numbers <<1, 4, 0>>.           *)
(***************************************************************************)
EXTENDS Integers, Sequences, FiniteSets, TLC

\* ------------------------------------------------------------------ bounds
\* most calls of check_faas_supervisor_layer in one behaviour
MaxChecks == 2
\* most calls of Layer.delete in one behaviour
MaxDeletes == 1
\* most versions one layer name holds in the initial registry
MaxInitVersions == 2

\* ------------------------------------------------------------------ inputs
Names == {"supervisor", "other"}
NameOrder == <<"other", "supervisor">>
Versions == {<<1, 4>>, <<1, 4, 0>>, <<1, 5, 0>>}
LicenseInfo == "Apache-2.0"

\* the empty dict {}
EmptyDict == [k \in {} |-> 0]

\* ---------------------------------------------------------------- helpers
RECURSIVE StripZeros(_)
StripZeros(v) ==
  IF Len(v) > 0 /\ v[Len(v)] = 0 THEN StripZeros(SubSeq(v, 1, Len(v) - 1)) ELSE v

RECURSIVE LexLess(_, _)
LexLess(a, b) ==
  IF Len(b) = 0 THEN FALSE
  ELSE IF Len(a) = 0 THEN TRUE
  ELSE IF a[1] < b[1] THEN TRUE
  ELSE IF a[1] > b[1] THEN FALSE
  ELSE LexLess(Tail(a), Tail(b))

\* StrUtils.compare_versions: <0, 0, >0; release numbers compare with
\* trailing zeros dropped, so "1.4" and "1.4.0" are equal.
compare_versions(ver1, ver2) ==
  IF LexLess(StripZeros(ver1), StripZeros(ver2)) THEN -1
  ELSE IF LexLess(StripZeros(ver2), StripZeros(ver1)) THEN 1
  ELSE 0

\* ------------------------------------------------- platform registry (API)
\* reg[name] is the sequence of the published, not deleted versions of the
\* layer, oldest first.
LayerVersionArn(name, ver) == <<"arn", name, ver>>

RECURSIVE ListFrom(_, _)
ListFrom(reg, i) ==
  IF i > Len(NameOrder) THEN <<>>
  ELSE LET n == NameOrder[i]
       IN (IF Len(reg[n]) > 0
           THEN <<[LayerName |-> n, LatestMatchingVersion |-> reg[n][Len(reg[n])]]>>
           ELSE <<>>) \o ListFrom(reg, i + 1)

list_layers(reg) == ListFrom(reg, 1)

publish_layer_version(reg, counter, props) ==
  LET n == props.LayerName
      info == [Version |-> counter[n] + 1,
               Description |-> props.Description,
               LayerVersionArn |-> LayerVersionArn(n, counter[n] + 1),
               Content |-> props.Content,
               LicenseInfo |-> props.LicenseInfo]
  IN [reg EXCEPT ![n] = Append(@, info)]

RECURSIVE Without(_, _)
Without(versions, number) ==
  IF Len(versions) = 0 THEN <<>>
  ELSE (IF versions[1].Version = number THEN <<>> ELSE <<versions[1]>>)
       \o Without(Tail(versions), number)

delete_layer_version(reg, layer_args) ==
  IF layer_args.LayerName \in DOMAIN reg
  THEN [reg EXCEPT ![layer_args.LayerName] = Without(@, layer_args.VersionNumber)]
  ELSE reg

\* -------------------------------------------------------------- class Layer
\* FindFrom as it would be with the "return {}" inside the loop
FindFrom_first_only(layers, i, layer_name) ==
  IF i > Len(layers) THEN EmptyDict
  ELSE IF layers[i].LayerName = layer_name THEN layers[i]
  ELSE EmptyDict

RECURSIVE FindFrom(_, _, _)
FindFrom(layers, i, layer_name) ==
  IF i > Len(layers) THEN EmptyDict
  ELSE IF layers[i].LayerName = layer_name THEN layers[i]
  ELSE FindFrom(layers, i + 1, layer_name)

_find(reg, layer_name) == FindFrom(list_layers(reg), 1, layer_name)

exists(reg, layer_name) == _find(reg, layer_name) # EmptyDict

get_latest_layer_info(reg, layer_name) ==
  LET layer == _find(reg, layer_name)
  IN IF layer # EmptyDict THEN layer.LatestMatchingVersion ELSE EmptyDict

\* Layer.create as it would be if a publish replaced the latest version
Layer_create_replacing(reg, counter, props) ==
  publish_layer_version(
    [reg EXCEPT ![props.LayerName] = IF Len(@) = 0 THEN @ ELSE SubSeq(@, 1, Len(@) - 1)],
    counter, props)

\* Layer.create
Layer_create(reg, counter, props) == publish_layer_version(reg, counter, props)

RECURSIVE DigitsValue(_)
DigitsValue(digits) ==
  IF Len(digits) = 0 THEN 0
  ELSE 10 * DigitsValue(SubSeq(digits, 1, Len(digits) - 1)) + digits[Len(digits)]

\* int(x) for an int or a string of decimal digits
PyInt(x) == IF x.kind = "int" THEN x.val ELSE DigitsValue(x.digits)

\* Layer.delete as it would be if it resolved the latest version whatever
\* its arguments
Layer_delete_latest_only(reg, kwargs) ==
  LET version_info == get_latest_layer_info(reg, kwargs.name)
  IN [reads |-> <<[op |-> "list_layers"]>>,
      layer_args |-> [LayerName |-> kwargs.name,
                      VersionNumber |-> IF "Version" \in DOMAIN version_info
                                        THEN version_info.Version ELSE -1]]

\* Layer.delete as it would be with 0 for the default -1
Layer_delete_default_zero(reg, kwargs) ==
  IF "version" \in DOMAIN kwargs
  THEN [reads |-> <<>>,
        layer_args |-> [LayerName |-> kwargs.name,
                        VersionNumber |-> PyInt(kwargs.version)]]
  ELSE LET version_info == get_latest_layer_info(reg, kwargs.name)
       IN [reads |-> <<[op |-> "list_layers"]>>,
           layer_args |-> [LayerName |-> kwargs.name,
                           VersionNumber |-> IF "Version" \in DOMAIN version_info
                                             THEN version_info.Version ELSE 0]]

\* Layer.delete: the registry reads it makes and the arguments of its
\* delete_layer_version call
Layer_delete(reg, kwargs) ==
  IF "version" \in DOMAIN kwargs
  THEN [reads |-> <<>>,
        layer_args |-> [LayerName |-> kwargs.name,
                        VersionNumber |-> PyInt(kwargs.version)]]
  ELSE LET version_info == get_latest_layer_info(reg, kwargs.name)
       IN [reads |-> <<[op |-> "list_layers"]>>,
           layer_args |-> [LayerName |-> kwargs.name,
                           VersionNumber |-> IF "Version" \in DOMAIN version_info
                                             THEN version_info.Version ELSE -1]]

\* ------------------------------------------------------ module functions
Min(S) == CHOOSE x \in S : \A y \in S : x <= y

HasSlash(file) == \E i \in 1..Len(file) : file[i] = "/"

FirstSlash(file) == Min({i \in 1..Len(file) : file[i] = "/"})

\* file.split("/", 1) of a name that holds a "/"
SplitOnce(file) ==
  <<SubSeq(file, 1, FirstSlash(file) - 1),
    SubSeq(file, FirstSlash(file) + 1, Len(file))>>

startswith(s, prefix) ==
  Len(s) >= Len(prefix) /\ SubSeq(s, 1, Len(prefix)) = prefix

\* the condition of the extraction loop
IsExtracted(file_name) ==
  startswith(file_name, <<"extra">>) \/ startswith(file_name, <<"faassupervisor">>)

\* _download_supervisor as it would be if it skipped the names without a "/"
_download_supervisor_skipping(thezip) ==
  LET good == {i \in 1..Len(thezip) : HasSlash(thezip[i])}
      extracted == {thezip[i] : i \in {j \in good : IsExtracted(SplitOnce(thezip[j])[2])}}
  IN IF good = {}
     THEN [error |-> "UnboundLocalError", extracted |-> {}, parent_folder |-> <<>>]
     ELSE [error |-> "none", extracted |-> extracted,
           parent_folder |-> SplitOnce(thezip[CHOOSE i \in good : \A j \in good : j <= i])[1]]

\* _download_supervisor after the archive is opened: the loop over
\* namelist() and the return of parent_folder
_download_supervisor(thezip) ==
  LET bad == {i \in 1..Len(thezip) : ~HasSlash(thezip[i])}
      stop == IF bad = {} THEN Len(thezip) + 1 ELSE Min(bad)
      extracted == {thezip[i] : i \in {j \in 1..(stop - 1) :
                                          IsExtracted(SplitOnce(thezip[j])[2])}}
  IN IF bad # {}
     THEN [error |-> "ValueError", extracted |-> extracted, parent_folder |-> <<>>]
     ELSE IF Len(thezip) = 0
     THEN [error |-> "UnboundLocalError", extracted |-> {}, parent_folder |-> <<>>]
     ELSE [error |-> "none", extracted |-> extracted,
           parent_folder |-> SplitOnce(thezip[Len(thezip)])[1]]

\* path is dir itself or lies below it
Under(path, dir) ==
  /\ startswith(path, dir)
  /\ Len(path) = Len(dir) \/ path[Len(dir) + 1] = "/"

\* path with its leading directory "from" replaced by "to"
Rebase(path, from, to) == to \o SubSeq(path, Len(from) + 1, Len(path))

IsDirEntry(path) == Len(path) > 0 /\ path[Len(path)] = "/"

\* _copy_supervisor_files as it would be without the 'python' path segment
_copy_supervisor_files_no_python(parent_folder, zip_files, code_files) ==
  LET supervisor_path == parent_folder \o <<"/", "faassupervisor">>
      moved == {p \in zip_files : Under(p, supervisor_path)}
  IN IF moved = {}
     THEN [error |-> "OSError", zip_files |-> zip_files, code_files |-> code_files]
     ELSE [error |-> "none",
           zip_files |-> zip_files \ moved,
           code_files |-> code_files \cup
              {Rebase(p, supervisor_path, <<"faassupervisor">>) : p \in moved}]

\* _copy_supervisor_files: shutil.move of <tmp_zip_path>/<parent>/faassupervisor
\* to <layer_code_path>/python/faassupervisor
_copy_supervisor_files(parent_folder, zip_files, code_files) ==
  LET supervisor_path == parent_folder \o <<"/", "faassupervisor">>
      moved == {p \in zip_files : Under(p, supervisor_path)}
  IN IF moved = {}
     THEN [error |-> "OSError", zip_files |-> zip_files, code_files |-> code_files]
     ELSE [error |-> "none",
           zip_files |-> zip_files \ moved,
           code_files |-> code_files \cup
              {Rebase(p, supervisor_path, <<"python", "/", "faassupervisor">>) : p \in moved}]

\* the entries of the archives nested under extra/
NestedArchive(file) ==
  IF file[Len(file)] = "bundle.zip" THEN {<<"b.txt">>}
  ELSE IF file[Len(file)] = "libs.zip" THEN {<<"lib", "/", "c.so">>}
  ELSE {}

\* _copy_extra_files: every file below <tmp_zip_path>/<parent>/extra is
\* unzipped into layer_code_path
_copy_extra_files(parent_folder, zip_files, code_files) ==
  LET extra_folder_path == parent_folder \o <<"/", "extra">>
      files == {p \in zip_files : /\ Under(p, extra_folder_path)
                                  /\ Len(p) > Len(extra_folder_path)
                                  /\ ~IsDirEntry(p)}
  IN code_files \cup UNION {NestedArchive(f) : f \in files}

\* _create_layer_zip: the archive holds the files of layer_code_path
_create_layer_zip(code_files) == {p \in code_files : ~IsDirEntry(p)}

\* --------------------------------------------------------- class LambdaLayers
\* CheckDecision as it would be with "<= 0" for "< 0"
CheckDecision_leq(layer_info, desired) ==
  IF layer_info # EmptyDict /\ "Description" \in DOMAIN layer_info
  THEN [compared |-> <<<<layer_info.Description, desired>>>>,
        branch |-> IF compare_versions(layer_info.Description, desired) <= 0
                   THEN "update" ELSE "use"]
  ELSE [compared |-> <<>>, branch |-> "create"]

\* CheckDecision as it would be with "> 0" for "< 0"
CheckDecision_reversed(layer_info, desired) ==
  IF layer_info # EmptyDict /\ "Description" \in DOMAIN layer_info
  THEN [compared |-> <<<<layer_info.Description, desired>>>>,
        branch |-> IF compare_versions(layer_info.Description, desired) > 0
                   THEN "update" ELSE "use"]
  ELSE [compared |-> <<>>, branch |-> "create"]

\* CheckDecision as it would be if a missing layer were taken as up to date
CheckDecision_absent_used(layer_info, desired) ==
  IF layer_info # EmptyDict /\ "Description" \in DOMAIN layer_info
  THEN [compared |-> <<<<layer_info.Description, desired>>>>,
        branch |-> IF compare_versions(layer_info.Description, desired) < 0
                   THEN "update" ELSE "use"]
  ELSE [compared |-> <<>>,
        branch |-> IF layer_info = EmptyDict THEN "use" ELSE "create"]

\* CheckDecision as it would be if the update branch were never taken
CheckDecision_never_updates(layer_info, desired) ==
  IF layer_info # EmptyDict /\ "Description" \in DOMAIN layer_info
  THEN [compared |-> <<<<layer_info.Description, desired>>>>, branch |-> "use"]
  ELSE [compared |-> <<>>, branch |-> "create"]

\* CheckDecision as it would be without the "'Description' in layer_info"
\* test, comparing the default '' of layer_info.get('Description', '')
CheckDecision_no_description_test(layer_info, desired) ==
  IF layer_info # EmptyDict
  THEN LET description == IF "Description" \in DOMAIN layer_info
                          THEN layer_info.Description ELSE <<>>
       IN [compared |-> <<<<description, desired>>>>,
           branch |-> IF compare_versions(description, desired) < 0
                      THEN "update" ELSE "use"]
  ELSE [compared |-> <<>>, branch |-> "create"]

\* the branch check_faas_supervisor_layer takes for the info it read, and
\* the arguments of the version comparisons it makes on the way
CheckDecision(layer_info, desired) ==
  IF layer_info # EmptyDict /\ "Description" \in DOMAIN layer_info
  THEN [compared |-> <<<<layer_info.Description, desired>>>>,
        branch |-> IF compare_versions(layer_info.Description, desired) < 0
                   THEN "update" ELSE "use"]
  ELSE [compared |-> <<>>, branch |-> "create"]

\* _get_supervisor_layer_props as it would be with a fixed description
_get_supervisor_layer_props_fixed(name, version, zip_bytes) ==
  [LayerName |-> name,
   Description |-> <<1, 4>>,
   Content |-> [ZipFile |-> zip_bytes],
   LicenseInfo |-> LicenseInfo]

\* _get_supervisor_layer_props
_get_supervisor_layer_props(name, version, zip_bytes) ==
  [LayerName |-> name,
   Description |-> version,
   Content |-> [ZipFile |-> zip_bytes],
   LicenseInfo |-> LicenseInfo]

\* the string ""
EmptyString == <<>>

\* get_latest_supervisor_layer_arn as it would be if it took the first layer
\* listed
get_latest_supervisor_layer_arn_first(reg, name) ==
  LET layers == list_layers(reg)
      layer_info == IF Len(layers) > 0 THEN layers[1].LatestMatchingVersion
                    ELSE EmptyDict
  IN IF "LayerVersionArn" \in DOMAIN layer_info
     THEN layer_info.LayerVersionArn ELSE EmptyString

\* get_latest_supervisor_layer_arn
get_latest_supervisor_layer_arn(reg, name) ==
  LET layer_info == get_latest_layer_info(reg, name)
  IN IF "LayerVersionArn" \in DOMAIN layer_info
     THEN layer_info.LayerVersionArn ELSE EmptyString

\* the statements of _create_layer in order, and the two ends of a call
FlowOrder ==
  <<"tmp_folders", "download", "copy_supervisor", "copy_extra", "zip",
    "publish", "delete_file">>

IndexOf(step) == CHOOSE i \in 1..Len(FlowOrder) : FlowOrder[i] = step

\* NextPc as it would be if _create_layer caught the exception and went on
NextPc_swallowing(step, err) ==
  IF IndexOf(step) = Len(FlowOrder) THEN "done"
  ELSE FlowOrder[IndexOf(step) + 1]

\* where control goes after a statement: on, or out with the exception
NextPc(step, err) ==
  IF err # "none" THEN "failed"
  ELSE IF IndexOf(step) = Len(FlowOrder) THEN "done"
  ELSE FlowOrder[IndexOf(step) + 1]

\* ------------------------------------------------------ the source archives
ParentFolder == <<"faas-supervisor-1">>

GoodArchive ==
  << ParentFolder \o <<"/">>,
     ParentFolder \o <<"/", "README.md">>,
     ParentFolder \o <<"/", "extra", "/">>,
     ParentFolder \o <<"/", "extra", "/", "bundle.zip">>,
     ParentFolder \o <<"/", "extra", "s.txt">>,
     ParentFolder \o <<"/", "faassupervisor", "/">>,
     ParentFolder \o <<"/", "faassupervisor", "/", "a.py">>,
     ParentFolder \o <<"/", "faassupervisor", "_docs", "/", "x">> >>

NoSupervisorArchive ==
  << ParentFolder \o <<"/">>,
     ParentFolder \o <<"/", "extra", "/", "libs.zip">> >>

NoSlashArchive ==
  << ParentFolder \o <<"/", "extra", "/", "bundle.zip">>,
     <<"README.md">>,
     ParentFolder \o <<"/", "faassupervisor", "/", "a.py">> >>

RichArchive ==
  << ParentFolder \o <<"/">>,
     ParentFolder \o <<"/", "extra", "/", "bundle.zip">>,
     ParentFolder \o <<"/", "extra", "/", "deps", "/", "libs.zip">>,
     ParentFolder \o <<"/", "faassupervisor", "/", "a.py">>,
     ParentFolder \o <<"/", "faassupervisor", "/", "utils", "/", "b.py">>,
     ParentFolder \o <<"/", "test", "/", "t.py">> >>

Archives == {GoodArchive, RichArchive, NoSupervisorArchive, NoSlashArchive, <<>>}

\* ------------------------------------------------------------------- state
VARIABLES
  registry,            \* the platform's layer versions, by layer name
  counter,             \* version numbers handed out so far, by layer name
  layer_name,          \* self.layer_name
  supervisor_version,  \* self.supervisor_version
  pc,                  \* the statement check_faas_supervisor_layer is at
  branch,              \* the branch the running or last check took
  compared,            \* the version comparisons the check made
  calls,               \* the platform API calls the check made, in order
  steps,               \* the statements of _create_layer the check ran
  error,               \* the exception the check left with, or "none"
  zipDir,              \* the directory at tmp_zip_path
  codeDir,             \* the directory at layer_code_path
  zipFiles,            \* the files <tmp>/<layer_name>.zip, by layer name
  parent_folder,       \* _create_layer's local
  fetched,             \* the archive the download returned
  regAtStart,          \* the registry when the check was called
  fsAtStart,           \* the filesystem when the check was called
  prevCall,            \* the check before this one
  nchecks,             \* calls of check_faas_supervisor_layer so far
  ndeletes,            \* calls of Layer.delete so far
  lastDelete,          \* the last Layer.delete call
  lastQuery,           \* the last read-only call and what it returned
  other                \* a second reconciler process running the same code

registryVars == <<registry, counter>>
fs == <<zipDir, codeDir, zipFiles>>
checkVars == <<pc, branch, compared, calls, steps, error, parent_folder, fetched,
               regAtStart, fsAtStart>>
vars == <<registry, counter, layer_name, supervisor_version, pc, branch,
          compared, calls, steps, error, zipDir, codeDir, zipFiles,
          parent_folder, fetched, regAtStart, fsAtStart, prevCall, nchecks,
          ndeletes, lastDelete, lastQuery, other>>

NoFile == [exists |-> FALSE]
File(entries) == [exists |-> TRUE, entries |-> entries]
NoDir == [exists |-> FALSE, files |-> {}]
NoCall ==
  [valid |-> FALSE, name |-> "none", desired |-> <<>>, ok |-> FALSE,
   branch |-> "none", publishes |-> 0, intervening |-> FALSE]
NoDelete == [valid |-> FALSE]
NoArchive == [got |-> FALSE]
NoQuery == [valid |-> FALSE]
\* the second reconciler before it is started
OtherIdle ==
  [pc |-> "idle", layer_name |-> "none", supervisor_version |-> <<>>,
   branch |-> "none", calls |-> <<>>, error |-> "none",
   zipDir |-> NoDir, codeDir |-> NoDir, parent_folder |-> <<>>,
   fetched |-> NoArchive, regAtStart |-> [n \in Names |-> <<>>]]

NoDescription == <<-1>>
Descriptions == Versions \cup {NoDescription}

\* a version record of the initial registry
InitInfo(name, number, description) ==
  IF description = NoDescription
  THEN [Version |-> number, LayerVersionArn |-> LayerVersionArn(name, number)]
  ELSE [Version |-> number, Description |-> description,
        LayerVersionArn |-> LayerVersionArn(name, number)]

\* the version lists a layer name starts with: any latest version on top of
\* older ones
OldDescription == <<1, 4>>

InitVersions(name) ==
  {<<>>} \cup
  {[i \in 1..n |-> InitInfo(name, i, IF i = n THEN d ELSE OldDescription)] :
     n \in 1..MaxInitVersions, d \in Descriptions}

Returned == {"idle", "done", "failed"}

Init ==
  /\ \E sup \in InitVersions("supervisor"),
        oth \in {<<>>, <<InitInfo("other", 1, <<1, 5, 0>>)>>} :
        registry = [n \in Names |-> IF n = "supervisor" THEN sup ELSE oth]
  /\ counter = [n \in Names |-> Len(registry[n])]
  /\ layer_name \in Names
  /\ supervisor_version \in Versions
  /\ pc = "idle"
  /\ branch = "none"
  /\ compared = <<>>
  /\ calls = <<>>
  /\ steps = <<>>
  /\ error = "none"
  /\ zipDir = NoDir
  /\ codeDir = NoDir
  /\ zipFiles = [n \in Names |-> NoFile]
  /\ parent_folder = <<>>
  /\ fetched = NoArchive
  /\ regAtStart = registry
  /\ fsAtStart = <<NoDir, NoDir, [n \in Names |-> NoFile]>>
  /\ prevCall = NoCall
  /\ nchecks = 0
  /\ ndeletes = 0
  /\ lastDelete = NoDelete
  /\ lastQuery = NoQuery
  /\ other = OtherIdle

Published(cs) == SelectSeq(cs, LAMBDA c : c.op = "publish_layer_version")
Deleted(cs) == SelectSeq(cs, LAMBDA c : c.op = "delete_layer_version")

\* the check that has just returned, if one has
Summary ==
  IF pc \in {"done", "failed"}
  THEN [valid |-> TRUE, name |-> layer_name, desired |-> supervisor_version,
        ok |-> pc = "done", branch |-> branch,
        publishes |-> Len(Published(calls)), intervening |-> FALSE]
  ELSE prevCall

\* ----------------------------------------------------------------- actions
\* check_faas_supervisor_layer up to the branch: the registry lookup and
\* the version comparison; the "use" branch returns at once
CheckLookup(listOk) ==
  /\ pc \in Returned
  /\ nchecks < MaxChecks
  /\ nchecks' = nchecks + 1
  /\ prevCall' = Summary
  /\ lastDelete' = NoDelete
  /\ regAtStart' = registry
  /\ fsAtStart' = fs
  /\ calls' = <<[op |-> "list_layers"]>>
  /\ steps' = <<>>
  /\ parent_folder' = <<>>
  /\ fetched' = NoArchive
  /\ IF ~listOk
     THEN /\ pc' = "failed"
          /\ error' = "ClientError"
          /\ branch' = "none"
          /\ compared' = <<>>
     ELSE LET layer_info == get_latest_layer_info(registry, layer_name)
              decision == CheckDecision(layer_info, supervisor_version)
          IN /\ branch' = decision.branch
             /\ compared' = decision.compared
             /\ error' = "none"
             /\ pc' = IF decision.branch = "use" THEN "done" ELSE FlowOrder[1]
  /\ UNCHANGED <<registry, counter, layer_name, supervisor_version,
                 zipDir, codeDir, zipFiles, ndeletes, lastQuery, other>>

\* what every statement of _create_layer does to the control state
Step(step, err) ==
  /\ pc = step
  /\ steps' = Append(steps, step)
  /\ error' = err
  /\ pc' = NextPc(step, err)
  /\ UNCHANGED <<layer_name, supervisor_version, branch, compared,
                 regAtStart, fsAtStart, prevCall, nchecks, ndeletes, lastDelete,
                 lastQuery, other>>

\* _create_tmp_folders: two fresh directories are made and their names
\* returned; the directory objects are dropped at the return, and whether
\* their finalizers have removed the directories by then is the runtime's
\* choice
CreateTmpFolders(ok, finalized) ==
  /\ Step("tmp_folders", IF ok THEN "none" ELSE "OSError")
  /\ IF ok
     THEN /\ zipDir' = [exists |-> ~finalized, files |-> {}]
          /\ codeDir' = [exists |-> ~finalized, files |-> {}]
     ELSE UNCHANGED <<zipDir, codeDir>>
  /\ UNCHANGED <<registry, counter, calls, zipFiles, parent_folder, fetched>>

\* _download_supervisor: the GET fails, or the bytes are no zip archive, or
\* the loop runs over the archive's names
DownloadSupervisor(outcome, thezip) ==
  LET r == _download_supervisor(thezip)
      err == IF outcome = "ok" THEN r.error ELSE outcome
  IN /\ Step("download", err)
     /\ IF outcome = "ok"
        THEN /\ zipDir' = [exists |-> zipDir.exists \/ r.extracted # {},
                           files |-> zipDir.files \cup r.extracted]
             /\ parent_folder' = r.parent_folder
             /\ fetched' = [got |-> TRUE, zip |-> thezip]
        ELSE UNCHANGED <<zipDir, parent_folder, fetched>>
     /\ UNCHANGED <<registry, counter, calls, codeDir, zipFiles>>

\* _copy_supervisor_files
CopySupervisorFiles ==
  LET r == _copy_supervisor_files(parent_folder, zipDir.files, codeDir.files)
  IN /\ Step("copy_supervisor", r.error)
     /\ zipDir' = [zipDir EXCEPT !.files = r.zip_files]
     /\ codeDir' = [exists |-> codeDir.exists \/ r.error = "none",
                    files |-> r.code_files]
     /\ UNCHANGED <<registry, counter, calls, zipFiles, parent_folder, fetched>>

\* _copy_extra_files
CopyExtraFiles(ok) ==
  /\ Step("copy_extra", IF ok THEN "none" ELSE "OSError")
  /\ IF ok
     THEN codeDir' = [codeDir EXCEPT
                        !.files = _copy_extra_files(parent_folder, zipDir.files, @)]
     ELSE UNCHANGED codeDir
  /\ UNCHANGED <<registry, counter, calls, zipDir, zipFiles, parent_folder, fetched>>

\* _create_layer_zip
CreateLayerZip(ok) ==
  /\ Step("zip", IF ok THEN "none" ELSE "OSError")
  /\ IF ok
     THEN zipFiles' = [zipFiles EXCEPT ![layer_name] = File(_create_layer_zip(codeDir.files))]
     ELSE UNCHANGED zipFiles
  /\ UNCHANGED <<registry, counter, calls, zipDir, codeDir, parent_folder, fetched>>

\* self.layer.create(**self._get_supervisor_layer_props(layer_zip_path)):
\* the archive is read, then published
Publish(ok) ==
  IF zipFiles[layer_name] = NoFile
  THEN /\ Step("publish", "OSError")
       /\ UNCHANGED <<registry, counter, calls, zipDir, codeDir, zipFiles,
                      parent_folder, fetched>>
  ELSE LET props == _get_supervisor_layer_props(layer_name, supervisor_version,
                                                zipFiles[layer_name].entries)
       IN /\ Step("publish", IF ok THEN "none" ELSE "ClientError")
          /\ calls' = Append(calls, [op |-> "publish_layer_version"] @@ props)
          /\ IF ok
             THEN /\ registry' = Layer_create(registry, counter, props)
                  /\ counter' = [counter EXCEPT ![layer_name] = @ + 1]
             ELSE UNCHANGED <<registry, counter>>
          /\ UNCHANGED <<zipDir, codeDir, zipFiles, parent_folder, fetched>>

\* FileUtils.delete_file(layer_zip_path)
DeleteFile(ok) ==
  /\ Step("delete_file", IF ok THEN "none" ELSE "OSError")
  /\ IF ok
     THEN zipFiles' = [zipFiles EXCEPT ![layer_name] = NoFile]
     ELSE UNCHANGED zipFiles
  /\ UNCHANGED <<registry, counter, calls, zipDir, codeDir, parent_folder, fetched>>

\* the version arguments Layer.delete is called with
VersionArgs ==
  {[kind |-> "int", val |-> 1], [kind |-> "int", val |-> 2],
   [kind |-> "str", digits |-> <<2>>], [kind |-> "str", digits |-> <<1, 0>>]}

DeleteKwargs ==
  {[name |-> n] : n \in Names}
  \cup {[name |-> n, version |-> v] : n \in Names, v \in VersionArgs}

\* Layer.delete(**kwargs)
LayerDelete(kwargs, listOk, deleteOk) ==
  LET r == Layer_delete(registry, kwargs)
      call == [op |-> "delete_layer_version"] @@ r.layer_args
      listFails == r.reads # <<>> /\ ~listOk
  IN /\ pc \in Returned
     /\ ndeletes < MaxDeletes
     /\ ndeletes' = ndeletes + 1
     /\ registry' = IF listFails \/ ~deleteOk THEN registry
                    ELSE delete_layer_version(registry, r.layer_args)
     /\ lastDelete' = [valid |-> TRUE, kwargs |-> kwargs,
                       calls |-> IF listFails THEN r.reads ELSE r.reads \o <<call>>,
                       error |-> IF listFails \/ ~deleteOk THEN "ClientError" ELSE "none",
                       regBefore |-> registry]
     /\ prevCall' = [Summary EXCEPT !.intervening = @ \/ registry' # registry]
     /\ pc' = "idle"
     /\ branch' = "none"
     /\ compared' = <<>>
     /\ calls' = <<>>
     /\ steps' = <<>>
     /\ error' = "none"
     /\ parent_folder' = <<>>
     /\ fetched' = NoArchive
     /\ regAtStart' = registry'
     /\ fsAtStart' = fs
     /\ lastQuery' = NoQuery
     /\ UNCHANGED <<counter, layer_name, supervisor_version, zipDir, codeDir,
                    zipFiles, nchecks, other>>

\* the layer names Layer.exists is asked about
QueryNames == Names \cup {"super"}

allButQuery ==
  <<registry, counter, layer_name, supervisor_version, pc, branch, compared,
    calls, steps, error, zipDir, codeDir, zipFiles, parent_folder, fetched,
    regAtStart, fsAtStart, prevCall, nchecks, ndeletes, lastDelete, other>>

\* Layer.exists(layer_name)
LayerExists(name, listOk) ==
  /\ pc \in Returned
  /\ lastQuery' =
       [valid |-> TRUE, op |-> "exists", name |-> name,
        error |-> IF listOk THEN "none" ELSE "ClientError",
        result |-> IF listOk THEN exists(registry, name) ELSE FALSE,
        found |-> IF listOk THEN _find(registry, name) ELSE EmptyDict,
        regBefore |-> registry]
  /\ UNCHANGED allButQuery

\* LambdaLayers.get_latest_supervisor_layer_arn()
GetLatestSupervisorLayerArn(listOk) ==
  /\ pc \in Returned
  /\ lastQuery' =
       [valid |-> TRUE, op |-> "arn", name |-> layer_name,
        error |-> IF listOk THEN "none" ELSE "ClientError",
        result |-> IF listOk THEN get_latest_supervisor_layer_arn(registry, layer_name)
                   ELSE EmptyString,
        regBefore |-> registry]
  /\ UNCHANGED allButQuery

\* the reconciler in sequential use: checks of the configured layer, and
\* deletions of versions of that layer between them
Next ==
  \/ \E listOk \in BOOLEAN : CheckLookup(listOk)
  \/ \E ok, finalized \in BOOLEAN : CreateTmpFolders(ok, finalized)
  \/ \E outcome \in {"ok", "RequestError", "BadZipFile"}, thezip \in Archives :
        DownloadSupervisor(outcome, thezip)
  \/ CopySupervisorFiles
  \/ \E ok \in BOOLEAN : CopyExtraFiles(ok)
  \/ \E ok \in BOOLEAN : CreateLayerZip(ok)
  \/ \E ok \in BOOLEAN : Publish(ok)
  \/ \E ok \in BOOLEAN : DeleteFile(ok)
  \/ \E kwargs \in {k \in DeleteKwargs : k.name = layer_name}, deleteOk \in BOOLEAN :
        LayerDelete(kwargs, TRUE, deleteOk)

Spec == Init /\ [][Next]_vars

\* the registry wrapper alone: Layer.delete with every argument
NextLayer ==
  \/ \E kwargs \in DeleteKwargs, listOk, deleteOk \in BOOLEAN :
        LayerDelete(kwargs, listOk, deleteOk)
  \/ \E name \in QueryNames, listOk \in BOOLEAN : LayerExists(name, listOk)
  \/ \E listOk \in BOOLEAN : GetLatestSupervisorLayerArn(listOk)

SpecLayer == Init /\ [][NextLayer]_vars

\* ------------------------------------------- the second reconciler process
\* the state of the first reconciler and of the callers of Layer
ownVars ==
  <<layer_name, supervisor_version, pc, branch, compared, calls, steps, error,
    zipDir, codeDir, parent_folder, fetched, regAtStart, fsAtStart, prevCall,
    nchecks, ndeletes, lastDelete, lastQuery>>

\* check_faas_supervisor_layer of a second LambdaLayers object, up to the
\* branch
OtherCheckLookup(name, version) ==
  LET layer_info == get_latest_layer_info(registry, name)
      decision == CheckDecision(layer_info, version)
  IN /\ other.pc = "idle"
     /\ other' = [OtherIdle EXCEPT
                    !.pc = IF decision.branch = "use" THEN "done" ELSE FlowOrder[1],
                    !.layer_name = name,
                    !.supervisor_version = version,
                    !.branch = decision.branch,
                    !.calls = <<[op |-> "list_layers"]>>,
                    !.regAtStart = registry]
     /\ UNCHANGED <<registry, counter, zipFiles, ownVars>>

\* _create_tmp_folders in the second process
OtherCreateTmpFolders(finalized) ==
  /\ other.pc = "tmp_folders"
  /\ other' = [other EXCEPT
                 !.pc = NextPc("tmp_folders", "none"),
                 !.zipDir = [exists |-> ~finalized, files |-> {}],
                 !.codeDir = [exists |-> ~finalized, files |-> {}]]
  /\ UNCHANGED <<registry, counter, zipFiles, ownVars>>

\* _download_supervisor in the second process
OtherDownloadSupervisor(thezip) ==
  LET r == _download_supervisor(thezip)
  IN /\ other.pc = "download"
     /\ other' = [other EXCEPT
                    !.pc = NextPc("download", r.error),
                    !.error = r.error,
                    !.zipDir = [exists |-> @.exists \/ r.extracted # {},
                                files |-> @.files \cup r.extracted],
                    !.parent_folder = r.parent_folder,
                    !.fetched = [got |-> TRUE, zip |-> thezip]]
     /\ UNCHANGED <<registry, counter, zipFiles, ownVars>>

\* _copy_supervisor_files in the second process
OtherCopySupervisorFiles ==
  LET r == _copy_supervisor_files(other.parent_folder, other.zipDir.files,
                                  other.codeDir.files)
  IN /\ other.pc = "copy_supervisor"
     /\ other' = [other EXCEPT
                    !.pc = NextPc("copy_supervisor", r.error),
                    !.error = r.error,
                    !.zipDir = [@ EXCEPT !.files = r.zip_files],
                    !.codeDir = [exists |-> @.exists \/ r.error = "none",
                                 files |-> r.code_files]]
     /\ UNCHANGED <<registry, counter, zipFiles, ownVars>>

\* _copy_extra_files in the second process
OtherCopyExtraFiles ==
  /\ other.pc = "copy_extra"
  /\ other' = [other EXCEPT
                 !.pc = NextPc("copy_extra", "none"),
                 !.codeDir = [@ EXCEPT !.files =
                    _copy_extra_files(other.parent_folder, other.zipDir.files, @)]]
  /\ UNCHANGED <<registry, counter, zipFiles, ownVars>>

\* _create_layer_zip in the second process: the archive's path is made of
\* the layer name alone
OtherCreateLayerZip ==
  /\ other.pc = "zip"
  /\ other' = [other EXCEPT !.pc = NextPc("zip", "none")]
  /\ zipFiles' = [zipFiles EXCEPT
                    ![other.layer_name] = File(_create_layer_zip(other.codeDir.files))]
  /\ UNCHANGED <<registry, counter, ownVars>>

\* the read of the archive and Layer.create in the second process
OtherPublish ==
  /\ other.pc = "publish"
  /\ IF zipFiles[other.layer_name] = NoFile
     THEN /\ other' = [other EXCEPT !.pc = NextPc("publish", "OSError"),
                                    !.error = "OSError"]
          /\ UNCHANGED <<registry, counter>>
     ELSE LET props == _get_supervisor_layer_props(other.layer_name,
                          other.supervisor_version, zipFiles[other.layer_name].entries)
          IN /\ other' = [other EXCEPT
                            !.pc = NextPc("publish", "none"),
                            !.calls = Append(@, [op |-> "publish_layer_version"] @@ props)]
             /\ registry' = Layer_create(registry, counter, props)
             /\ counter' = [counter EXCEPT ![other.layer_name] = @ + 1]
  /\ UNCHANGED <<zipFiles, ownVars>>

\* FileUtils.delete_file(layer_zip_path) in the second process
OtherDeleteFile ==
  LET err == IF zipFiles[other.layer_name].exists THEN "none" ELSE "OSError"
  IN /\ other.pc = "delete_file"
     /\ other' = [other EXCEPT !.pc = NextPc("delete_file", err), !.error = err]
     /\ zipFiles' = [zipFiles EXCEPT ![other.layer_name] = NoFile]
     /\ UNCHANGED <<registry, counter, ownVars>>

\* the archives the repository serves while two reconcilers run
ServedArchives == {GoodArchive, RichArchive}

\* two reconcilers, each making one check, their statements interleaved
NextConc ==
  \/ nchecks = 0 /\ CheckLookup(TRUE)
  \/ \E finalized \in BOOLEAN : CreateTmpFolders(TRUE, finalized)
  \/ \E thezip \in ServedArchives : DownloadSupervisor("ok", thezip)
  \/ CopySupervisorFiles
  \/ CopyExtraFiles(TRUE)
  \/ CreateLayerZip(TRUE)
  \/ Publish(TRUE)
  \/ DeleteFile(zipFiles[layer_name].exists)
  \/ \E name \in Names, version \in Versions : OtherCheckLookup(name, version)
  \/ \E finalized \in BOOLEAN : OtherCreateTmpFolders(finalized)
  \/ \E thezip \in ServedArchives : OtherDownloadSupervisor(thezip)
  \/ OtherCopySupervisorFiles
  \/ OtherCopyExtraFiles
  \/ OtherCreateLayerZip
  \/ OtherPublish
  \/ OtherDeleteFile

SpecConc == Init /\ [][NextConc]_vars

\* the desired versions of successive configurations
MoreVersions == Versions \cup {<<2, 0>>}

\* LambdaLayers.__init__ for the same layer with another desired version
LambdaLayersInit(version) ==
  /\ pc \in Returned
  /\ supervisor_version' = version
  /\ prevCall' = Summary
  /\ pc' = "idle"
  /\ branch' = "none"
  /\ compared' = <<>>
  /\ calls' = <<>>
  /\ steps' = <<>>
  /\ error' = "none"
  /\ parent_folder' = <<>>
  /\ fetched' = NoArchive
  /\ regAtStart' = registry
  /\ fsAtStart' = fs
  /\ UNCHANGED <<registry, counter, layer_name, zipDir, codeDir, zipFiles,
                 nchecks, ndeletes, lastDelete, lastQuery, other>>

\* checks one after the other, each with a desired version of its own
NextVersions ==
  \/ \E version \in MoreVersions : LambdaLayersInit(version)
  \/ CheckLookup(TRUE)
  \/ \E finalized \in BOOLEAN : CreateTmpFolders(TRUE, finalized)
  \/ DownloadSupervisor("ok", GoodArchive)
  \/ CopySupervisorFiles
  \/ CopyExtraFiles(TRUE)
  \/ CreateLayerZip(TRUE)
  \/ \E ok \in BOOLEAN : Publish(ok)
  \/ DeleteFile(TRUE)

SpecVersions == Init /\ [][NextVersions]_vars

\* ------------------------------------------------------------- properties
\* a check has been called and has got past its registry lookup
PastLookup == nchecks > 0 /\ pc # "idle" /\ ~(pc = "failed" /\ steps = <<>>)

\* the versions the layer had when the check was called
VersionsAtStart == regAtStart[layer_name]
LatestAtStart == VersionsAtStart[Len(VersionsAtStart)]

AbsentAtStart == Len(VersionsAtStart) = 0
UndescribedAtStart ==
  Len(VersionsAtStart) > 0 /\ "Description" \notin DOMAIN LatestAtStart
StaleAtStart ==
  /\ Len(VersionsAtStart) > 0
  /\ "Description" \in DOMAIN LatestAtStart
  /\ compare_versions(LatestAtStart.Description, supervisor_version) < 0
CurrentAtStart ==
  /\ Len(VersionsAtStart) > 0
  /\ "Description" \in DOMAIN LatestAtStart
  /\ compare_versions(LatestAtStart.Description, supervisor_version) >= 0

\* the check is the second of two with the same layer name and version, the
\* first returned without error and the registry was left alone in between
SecondOfTwo ==
  /\ PastLookup
  /\ prevCall.valid /\ prevCall.ok /\ ~prevCall.intervening
  /\ prevCall.name = layer_name /\ prevCall.desired = supervisor_version

\* C1: a check that follows a successful check of the same layer name and
\* version, with no registry change in between, takes the "use" branch and
\* publishes nothing, and the two checks together publish at most once.
C1_CheckIdempotent ==
  SecondOfTwo =>
    /\ branch = "use" /\ pc = "done"
    /\ Len(Published(calls)) = 0
    /\ prevCall.publishes + Len(Published(calls)) <= 1

C1_Witness ==
  SecondOfTwo /\ prevCall.publishes = 1 /\ prevCall.branch = "update" /\ pc = "done"

\* C2: when a check has returned without error, the layer has a latest
\* version whose description is not lower than the desired version.
C2_Convergence ==
  (nchecks > 0 /\ pc = "done") =>
    /\ Len(registry[layer_name]) > 0
    /\ LET latest == registry[layer_name][Len(registry[layer_name])]
       IN /\ "Description" \in DOMAIN latest
          /\ compare_versions(latest.Description, supervisor_version) >= 0

C2_Witness ==
  /\ nchecks > 0 /\ pc = "done" /\ StaleAtStart
  /\ registry[layer_name][Len(registry[layer_name])].Description = supervisor_version

\* C3: a check of a layer name with no record in the registry makes at most
\* one publish call, and exactly one when it returns; the call names the
\* layer looked up and carries the desired version as its description.
C3_AbsentPublishesOnce ==
  (PastLookup /\ AbsentAtStart) =>
    LET published == Published(calls)
    IN /\ Len(published) <= 1
       /\ pc = "done" => Len(published) = 1
       /\ \A i \in 1..Len(published) :
             /\ published[i].LayerName = layer_name
             /\ published[i].Description = supervisor_version

C3_Witness ==
  /\ PastLookup /\ AbsentAtStart /\ pc = "done"
  /\ Len(Published(calls)) = 1
  /\ Len(registry["other"]) > 0

\* C4: a check of a layer whose latest description is lower than the desired
\* version makes at most one publish call, and exactly one when it returns,
\* with the desired version as its description.
C4_StalePublishesOnce ==
  (PastLookup /\ StaleAtStart) =>
    LET published == Published(calls)
    IN /\ Len(published) <= 1
       /\ pc = "done" => Len(published) = 1
       /\ \A i \in 1..Len(published) :
             /\ published[i].LayerName = layer_name
             /\ published[i].Description = supervisor_version

C4_Witness ==
  /\ PastLookup /\ StaleAtStart /\ pc = "done"
  /\ Published(calls)[1].Description = <<1, 5, 0>>
  /\ LatestAtStart.Description = <<1, 4>>

\* C5: a check of a layer whose latest description is not lower than the
\* desired version returns after its lookup having made no publish and no
\* delete call and run no statement of the create flow, with the registry
\* and the filesystem as they were.
C5_CurrentNoEffect ==
  (PastLookup /\ CurrentAtStart) =>
    /\ pc = "done"
    /\ calls = <<[op |-> "list_layers"]>>
    /\ steps = <<>>
    /\ registry = regAtStart
    /\ fs = fsAtStart

C5_Witness ==
  /\ PastLookup /\ CurrentAtStart /\ pc = "done"
  /\ LatestAtStart.Description # supervisor_version
  /\ compare_versions(LatestAtStart.Description, supervisor_version) = 0
  /\ calls # <<>>

C5_WitnessLeftover ==
  /\ PastLookup /\ CurrentAtStart /\ pc = "done"
  /\ prevCall.valid /\ ~prevCall.ok /\ zipFiles[layer_name].exists /\ zipDir.exists

\* C6: a check of a layer whose latest version has no description takes the
\* create branch without comparing versions, and publishes once, with the
\* desired version as description.
C6_UndescribedCreates ==
  (PastLookup /\ UndescribedAtStart) =>
    LET published == Published(calls)
    IN /\ branch = "create"
       /\ compared = <<>>
       /\ Len(published) <= 1
       /\ pc = "done" => Len(published) = 1
       /\ \A i \in 1..Len(published) : published[i].Description = supervisor_version

C6_Witness ==
  PastLookup /\ UndescribedAtStart /\ pc = "done" /\ Len(Published(calls)) = 1

\* C7: a check makes no delete call, every version the registry held when
\* the check was called is still there, and the layer checked has gained at
\* most one version.
C7_PublishAdditive ==
  (nchecks > 0 /\ pc # "idle") =>
    /\ Len(Deleted(calls)) = 0
    /\ \A n \in Names : \A i \in 1..Len(regAtStart[n]) :
          \E j \in 1..Len(registry[n]) : registry[n][j] = regAtStart[n][i]
    /\ \A n \in Names :
          Len(registry[n]) <= Len(regAtStart[n]) + (IF n = layer_name THEN 1 ELSE 0)

C7_Witness ==
  /\ nchecks > 0 /\ pc = "done" /\ StaleAtStart
  /\ Len(registry[layer_name]) = Len(regAtStart[layer_name]) + 1
  /\ Len(regAtStart[layer_name]) = 2

\* C8: when a create or update attempt is over, by return or by exception,
\* the extraction directory, the code directory and the output archive are
\* gone.
C8_WorkspaceRemoved ==
  (pc \in {"done", "failed"} /\ steps # <<>>) =>
    /\ ~zipDir.exists
    /\ ~codeDir.exists
    /\ ~zipFiles[layer_name].exists

\* C9: an exception ends the check where it is raised: the statements run
\* are a prefix of the flow in order, each run once; a check that failed
\* before its publish call has made no publish call; and a check that failed
\* at or before its publish call has left the registry as it was.
C9_FailureAborts ==
  /\ steps = SubSeq(FlowOrder, 1, Len(steps))
  /\ error # "none" => pc = "failed"
  /\ (pc = "failed" /\ nchecks > 0) =>
        /\ error # "none"
        /\ (steps = <<>> \/ IndexOf(steps[Len(steps)]) < IndexOf("publish"))
              => Len(Published(calls)) = 0
        /\ (steps = <<>> \/ IndexOf(steps[Len(steps)]) <= IndexOf("publish"))
              => registry = regAtStart

C9_Witness ==
  /\ pc = "failed" /\ steps # <<>> /\ steps[Len(steps)] = "copy_supervisor"
  /\ error = "OSError" /\ fetched.got /\ registry = regAtStart

\* C10: Layer.delete makes one delete_layer_version call for the name given;
\* with a version argument the call carries that number and the registry is
\* not read; without one it carries the number of the layer's latest version.
C10_DeleteResolvesVersion ==
  (lastDelete.valid /\ (lastDelete.error = "none" \/ "version" \in DOMAIN lastDelete.kwargs)) =>
    LET kwargs == lastDelete.kwargs
        deleted == Deleted(lastDelete.calls)
        before == lastDelete.regBefore[kwargs.name]
    IN /\ Len(deleted) = 1
       /\ deleted[1].LayerName = kwargs.name
       /\ IF "version" \in DOMAIN kwargs
          THEN /\ lastDelete.calls = deleted
               /\ kwargs.version.kind = "int" => deleted[1].VersionNumber = kwargs.version.val
               /\ kwargs.version.kind = "str" =>
                     deleted[1].VersionNumber = DigitsValue(kwargs.version.digits)
          ELSE Len(before) > 0 => deleted[1].VersionNumber = before[Len(before)].Version

C10_Witness ==
  /\ lastDelete.valid /\ lastDelete.error = "none"
  /\ "version" \in DOMAIN lastDelete.kwargs
  /\ lastDelete.kwargs.version = [kind |-> "str", digits |-> <<1, 0>>]
  /\ Len(lastDelete.regBefore[lastDelete.kwargs.name]) = 2
  /\ Deleted(lastDelete.calls)[1].VersionNumber = 10

C10_WitnessLatest ==
  /\ lastDelete.valid /\ lastDelete.error = "none"
  /\ "version" \notin DOMAIN lastDelete.kwargs
  /\ Len(lastDelete.regBefore[lastDelete.kwargs.name]) = 2
  /\ Deleted(lastDelete.calls)[1].VersionNumber = 2
  /\ Len(registry[lastDelete.kwargs.name]) = 1

\* C11: Layer.delete without a version, for a name the registry has no
\* layer of, makes its delete_layer_version call all the same, with
\* VersionNumber -1, and raises nothing of its own.
C11_DeleteAbsentSentinel ==
  (/\ lastDelete.valid
   /\ "version" \notin DOMAIN lastDelete.kwargs
   /\ Len(lastDelete.regBefore[lastDelete.kwargs.name]) = 0
   /\ Len(lastDelete.calls) > 1 \/ lastDelete.error = "none") =>
    LET deleted == Deleted(lastDelete.calls)
    IN /\ lastDelete.calls[1] = [op |-> "list_layers"]
       /\ Len(deleted) = 1
       /\ deleted[1].LayerName = lastDelete.kwargs.name
       /\ deleted[1].VersionNumber = -1

C11_Witness ==
  /\ lastDelete.valid
  /\ lastDelete.kwargs = [name |-> "supervisor"]
  /\ Len(lastDelete.regBefore["supervisor"]) = 0
  /\ Len(lastDelete.regBefore["other"]) = 1
  /\ lastDelete.error = "none"
  /\ Deleted(lastDelete.calls)[1].VersionNumber = -1
  /\ registry = lastDelete.regBefore

\* C12: Layer.exists(name) is true exactly when _find(name) returns a
\* non-empty record, which is exactly when list_layers() holds a record
\* whose LayerName is name.
C12_ExistsIffFound ==
  (lastQuery.valid /\ lastQuery.op = "exists" /\ lastQuery.error = "none") =>
    LET layers == list_layers(lastQuery.regBefore)
    IN /\ lastQuery.result <=> lastQuery.found # EmptyDict
       /\ lastQuery.result <=>
             \E i \in 1..Len(layers) : layers[i].LayerName = lastQuery.name
       /\ lastQuery.result =>
             /\ lastQuery.found.LayerName = lastQuery.name
             /\ \E i \in 1..Len(layers) : layers[i] = lastQuery.found

C12_Witness ==
  /\ lastQuery.valid /\ lastQuery.op = "exists" /\ lastQuery.error = "none"
  /\ lastQuery.name = "supervisor" /\ lastQuery.result
  /\ Len(lastQuery.regBefore["other"]) = 1

C12_WitnessNot ==
  /\ lastQuery.valid /\ lastQuery.op = "exists" /\ lastQuery.error = "none"
  /\ lastQuery.name = "super" /\ ~lastQuery.result
  /\ Len(lastQuery.regBefore["supervisor"]) = 2

\* C13: get_latest_supervisor_layer_arn returns "" when the registry has no
\* layer of the configured name and the LayerVersionArn of the layer's
\* latest version otherwise, and leaves the registry as it was.
C13_LatestArn ==
  (lastQuery.valid /\ lastQuery.op = "arn" /\ lastQuery.error = "none") =>
    LET versions == lastQuery.regBefore[lastQuery.name]
    IN /\ Len(versions) = 0 => lastQuery.result = EmptyString
       /\ Len(versions) > 0 =>
             lastQuery.result = versions[Len(versions)].LayerVersionArn
       /\ registry = lastQuery.regBefore

C13_Witness ==
  /\ lastQuery.valid /\ lastQuery.op = "arn" /\ lastQuery.error = "none"
  /\ lastQuery.name = "supervisor"
  /\ lastQuery.result = <<"arn", "supervisor", 2>>
  /\ Len(lastQuery.regBefore["other"]) = 1

C13_WitnessEmpty ==
  /\ lastQuery.valid /\ lastQuery.op = "arn" /\ lastQuery.error = "none"
  /\ lastQuery.name = "supervisor"
  /\ lastQuery.result = EmptyString
  /\ Len(lastQuery.regBefore["other"]) = 1

\* the entries of an archive that lie in the folder "dir" below the
\* archive's top-level folder, as paths below the top-level folder
Below(thezip, dir) ==
  {SplitOnce(thezip[i])[2] : i \in {j \in 1..Len(thezip) :
      /\ HasSlash(thezip[j])
      /\ startswith(SplitOnce(thezip[j])[2], <<dir, "/">>)}}

\* C14: after a download, the extraction directory holds exactly the
\* archive's entries whose path below the top-level folder begins with
\* "extra/" or "faassupervisor/".
C14_FetchFilterExact ==
  (pc = "copy_supervisor" /\ fetched.got) =>
    {SplitOnce(file)[2] : file \in zipDir.files}
      = Below(fetched.zip, "extra") \cup Below(fetched.zip, "faassupervisor")

\* the layout the packaged archive is to have for a source archive
ExpectedLayout(thezip) ==
  {<<"python", "/">> \o file : file \in {f \in Below(thezip, "faassupervisor") : ~IsDirEntry(f)}}
  \cup UNION {NestedArchive(file) : file \in {f \in Below(thezip, "extra") : ~IsDirEntry(f)}}

\* C15: the packaged archive, and the content published, hold the files of
\* the source archive's faassupervisor folder under python/faassupervisor/,
\* the entries of the archives nested in its extra folder at the root, and
\* nothing else.
C15_PackagingLayout ==
  /\ (pc = "publish" /\ fetched.got) =>
        zipFiles[layer_name] = File(ExpectedLayout(fetched.zip))
  /\ (pc \in {"delete_file", "done"} /\ fetched.got) =>
        /\ Len(Published(calls)) = 1
        /\ Published(calls)[1].Content = [ZipFile |-> ExpectedLayout(fetched.zip)]

C15_Witness ==
  /\ pc = "done" /\ fetched.got /\ fetched.zip = RichArchive
  /\ Published(calls)[1].Content.ZipFile =
        {<<"python", "/", "faassupervisor", "/", "a.py">>,
         <<"python", "/", "faassupervisor", "/", "utils", "/", "b.py">>,
         <<"b.txt">>, <<"lib", "/", "c.so">>}

C15_WitnessGood ==
  /\ pc = "done" /\ fetched.got /\ fetched.zip = GoodArchive
  /\ Published(calls)[1].Content.ZipFile =
        {<<"python", "/", "faassupervisor", "/", "a.py">>, <<"b.txt">>}

\* the error taxonomy: the kind of failure an exception of the code stands for
ErrorKind(exception) ==
  IF exception = "RequestError" THEN "FetchError"
  ELSE IF exception \in {"BadZipFile", "ValueError", "UnboundLocalError"}
  THEN "ArchiveFormatError"
  ELSE IF exception = "OSError" THEN "FileSystemError"
  ELSE IF exception = "ClientError" THEN "RegistryError"
  ELSE "none"

\* an archive with no entries, or with an entry whose name has no "/"
NoTopLevelFolder(thezip) ==
  Len(thezip) = 0 \/ \E i \in 1..Len(thezip) : ~HasSlash(thezip[i])

\* C18: a download whose GET fails ends the check with a fetch error, one
\* whose bytes are no archive or whose archive has no entries or an entry
\* without "/" ends it with an archive format error, an archive with a
\* top-level folder does not fail the download, and a check that failed in
\* its download has published nothing.
C18_FetchErrorKinds ==
  (Len(steps) > 0 /\ steps[Len(steps)] = "download") =>
    /\ (fetched.got /\ NoTopLevelFolder(fetched.zip)) =>
          pc = "failed" /\ ErrorKind(error) = "ArchiveFormatError"
    /\ (fetched.got /\ ~NoTopLevelFolder(fetched.zip)) => pc = "copy_supervisor"
    /\ ~fetched.got =>
          /\ pc = "failed"
          /\ ErrorKind(error) \in {"FetchError", "ArchiveFormatError"}
          /\ ~zipDir.exists \/ zipDir.files = {}
    /\ pc = "failed" => Len(Published(calls)) = 0 /\ registry = regAtStart

C18_Witness ==
  /\ Len(steps) > 0 /\ steps[Len(steps)] = "download" /\ pc = "failed"
  /\ fetched.got /\ fetched.zip = NoSlashArchive /\ error = "ValueError"
  /\ zipDir.files # {}

C18_WitnessEmpty ==
  /\ Len(steps) > 0 /\ steps[Len(steps)] = "download" /\ pc = "failed"
  /\ fetched.got /\ fetched.zip = <<>> /\ error = "UnboundLocalError"

C18_WitnessFetch ==
  /\ Len(steps) > 0 /\ steps[Len(steps)] = "download" /\ pc = "failed"
  /\ ~fetched.got /\ error = "RequestError"

Described(versions) ==
  Len(versions) > 0 /\ "Description" \in DOMAIN versions[Len(versions)]

\* C19: in a sequence of checks with any desired versions, a check of a
\* layer whose latest version carries a description publishes only a
\* description higher than that one, and every change of such a layer's
\* versions adds one version whose description is higher than the latest
\* before.
C19_NoDowngrade ==
  /\ [](\A i \in 1..Len(Published(calls)) :
          (PastLookup /\ Described(VersionsAtStart)) =>
             compare_versions(VersionsAtStart[Len(VersionsAtStart)].Description,
                              Published(calls)[i].Description) < 0)
  /\ [][\A n \in Names :
          (Described(registry[n]) /\ registry'[n] # registry[n]) =>
             /\ Len(registry'[n]) = Len(registry[n]) + 1
             /\ Described(registry'[n])
             /\ compare_versions(registry[n][Len(registry[n])].Description,
                                 registry'[n][Len(registry'[n])].Description) < 0]_vars

C19_Witness ==
  /\ nchecks = 2 /\ pc = "done"
  /\ prevCall.valid /\ prevCall.branch = "update" /\ prevCall.publishes = 1
  /\ branch = "update" /\ Len(Published(calls)) = 1
  /\ prevCall.desired = <<1, 5, 0>> /\ supervisor_version = <<2, 0>>
  /\ Len(registry[layer_name]) = Len(regAtStart[layer_name]) + 1

\* the versions of "before" are all among the versions of "after"
Kept(before, after) ==
  \A n \in Names : \A i \in 1..Len(before[n]) :
     \E j \in 1..Len(after[n]) : after[n][j] = before[n][i]

\* both reconcilers have looked up the same layer with the same desired
\* version and have seen the same registry
BothLookedUp ==
  /\ PastLookup /\ other.pc # "idle"
  /\ other.layer_name = layer_name
  /\ other.supervisor_version = supervisor_version
  /\ other.regAtStart = regAtStart

\* C16: with two reconcilers running concurrently, every version that was in
\* the registry when either looked it up is still there, and the two
\* together add at most two versions to a layer they both saw in the same
\* state; the run in which both see the layer stale and both publish is the
\* witness.
C16_ConcurrentPublishesAdditive ==
  /\ (nchecks > 0 /\ pc # "idle") => Kept(regAtStart, registry)
  /\ other.pc # "idle" => Kept(other.regAtStart, registry)
  /\ BothLookedUp =>
        /\ Len(registry[layer_name]) <= Len(regAtStart[layer_name]) + 2
        /\ Len(registry[layer_name]) =
              Len(regAtStart[layer_name])
              + Len(Published(calls)) + Len(Published(other.calls))

C16_Witness ==
  /\ BothLookedUp /\ StaleAtStart
  /\ branch = "update" /\ other.branch = "update"
  /\ pc = "done" /\ other.pc = "done"
  /\ Len(Published(calls)) = 1 /\ Len(Published(other.calls)) = 1
  /\ Len(registry[layer_name]) = Len(regAtStart[layer_name]) + 2
  /\ \A i \in 1..2 :
        registry[layer_name][Len(regAtStart[layer_name]) + i].Description
           = supervisor_version

C16_WitnessAbsent ==
  /\ BothLookedUp /\ AbsentAtStart
  /\ branch = "create" /\ other.branch = "create"
  /\ pc = "done" /\ other.pc \in {"done", "failed"}
  /\ Len(registry[layer_name]) = 2

\* C17: each of two concurrent create or update flows finds, when it comes
\* to publish, its output archive in place and holding what it packaged
\* itself, and publishes that content.
C17_WorkspacesPrivate ==
  /\ (pc = "publish" /\ fetched.got) =>
        zipFiles[layer_name] = File(ExpectedLayout(fetched.zip))
  /\ (pc \in {"delete_file", "done"} /\ fetched.got) =>
        /\ Len(Published(calls)) = 1
        /\ Published(calls)[1].Content = [ZipFile |-> ExpectedLayout(fetched.zip)]
  /\ (other.pc = "publish" /\ other.fetched.got) =>
        zipFiles[other.layer_name] = File(ExpectedLayout(other.fetched.zip))
  /\ (other.pc \in {"delete_file", "done"} /\ other.fetched.got) =>
        /\ Len(Published(other.calls)) = 1
        /\ Published(other.calls)[1].Content
              = [ZipFile |-> ExpectedLayout(other.fetched.zip)]
  /\ (other.pc = "failed" /\ other.fetched.got) => other.error # "OSError"

====
